---- MODULE Spec2Model ----
(***************************************************************************)
(* Model of the request-time gateway runtime of grpc-graphql-gateway:      *)
(* runtime.ServeMux (setup calls and ServeHTTP) and respondResult.         *)
(*                                                                         *)
(* The ServeMux fields are the shared configuration; every local variable  *)
(* of one ServeHTTP call is a function over the requests being served.     *)
(* Every call ServeHTTP makes to a collaborator (a middleware, a handler,  *)
(* the schema builder, the request reader, a directive, the execution      *)
(* engine, the error observer, the response writer, a closer) appends one  *)
(* event to that request's trace, in program order.                        *)
(***************************************************************************)
EXTENDS Integers, Sequences, FiniteSets, TLC

VARIABLES
    \* ---- ServeMux (shared configuration) ----
    middlewares,         \* s.middlewares: sequence of middleware ids
    graphQLMiddlewares,  \* s.graphQLMiddlewares: method -> (directive -> fn id)
    ErrorHandler,        \* s.ErrorHandler: "nil" or "custom"
    handlers,            \* s.handlers: sequence of handler ids
    addErr,              \* value returned by the last AddHandler call
    regErr,              \* value the last generated Register function returned to main
    registered,          \* history: the middlewares in the order they were registered
    phase,               \* "setup" until the mux is handed to the HTTP server
    clients,             \* the requests the HTTP server dispatches to ServeHTTP
    \* ---- one ServeHTTP call per request ----
    pc,                  \* position of the call in ServeHTTP
    body,                \* the inbound request's body
    ctx,                 \* local ctx
    idx,                 \* position of the running range loop
    queries,             \* local queries (merged graphql.Fields)
    mutations,           \* local mutations (merged graphql.Fields)
    defers,              \* deferred closers, in the order they were deferred
    req,                 \* local req (decoded request)
    pendingQ,            \* keys of queries whose directives have not been run
    pendingM,            \* keys of mutations whose directives have not been run
    curMethod,           \* method whose directives are being run
    pendingD,            \* directives of curMethod not yet run
    response,            \* what has been written to w
    trace                \* calls made by this ServeHTTP call, in order

cfgVars == <<middlewares, registered, graphQLMiddlewares, ErrorHandler, handlers,
             addErr, regErr>>
reqVars == <<pc, body, ctx, idx, queries, mutations, defers, req,
             pendingQ, pendingM, curMethod, pendingD, response, trace>>
vars == <<cfgVars, phase, clients, reqVars>>

----------------------------------------------------------------------------
(* Bounds of the model *)

MaxMiddlewares == 2
MaxHandlers == 2
MaxDirectives == 2

(* Program constant *)
StatusOK == 200

----------------------------------------------------------------------------
(* The universe the inputs are drawn from *)

ReqIds == {1, 2}

MwIds == {"auth", "cors"}

HandlerIds == {"greeter", "books", "writer", "broken", "empty"}

\* The (method, directive) pairs UseDirective is called with
DirectiveKeys == {<<"search", "acl">>, <<"search", "audit">>, <<"create", "acl">>}

FnIds == {"fn1"}

EmptyFields == [k \in {} |-> "none"]

\* nil, as an error, as a *grpc.ClientConn, as a context and as a result's data
NoError == [kind |-> "nil"]
NilConn == [req |-> 0, h |-> 0]
NilCtx == [req |-> 0, values |-> <<>>]
NoData == "null"
NoRequest == [Query |-> "", Variables |-> EmptyFields]

\* A graphql.Field as a generated handler declares it: its output type
\* ("nil" is the malformed definition graphql.NewObject rejects).
HandlerQueries(h) ==
    CASE h = "greeter" -> [k \in {"hello"} |-> "String"]
      [] h = "books"   -> [k \in {"hello", "search"} |->
                              IF k = "hello" THEN "Book" ELSE "BookList"]
      [] h = "writer"  -> EmptyFields
      [] h = "broken"  -> [k \in {"hello"} |-> "nil"]
      [] OTHER         -> EmptyFields

HandlerMutations(h) ==
    CASE h = "greeter" -> EmptyFields
      [] h = "books"   -> [k \in {"create", "search"} |-> "Book"]
      [] h = "writer"  -> [k \in {"create"} |-> "Ack"]
      [] h = "broken"  -> EmptyFields
      [] OTHER         -> EmptyFields

\* the handler binds its resolvers to the connection of the first request
GetQueriesCached(h, c) ==
    [k \in DOMAIN HandlerQueries(h) |->
        [type |-> HandlerQueries(h)[k], handler |-> h, conn |-> [c EXCEPT !.req = 1]]]

\* h.GetQueries(c), h.GetMutations(c): the fields, each resolver bound to c
GetQueries(h, c) ==
    [k \in DOMAIN HandlerQueries(h) |->
        [type |-> HandlerQueries(h)[k], handler |-> h, conn |-> c]]

GetMutations(h, c) ==
    [k \in DOMAIN HandlerMutations(h) |->
        [type |-> HandlerMutations(h)[k], handler |-> h, conn |-> c]]

Names == UNION {DOMAIN HandlerQueries(h) \cup DOMAIN HandlerMutations(h) :
                    h \in HandlerIds}

\* Request bodies: undecodable, or a JSON object holding the query text
Bodies == {"{", "{ search }", "mutation { create }"}

\* Failures a middleware or a directive can return
TypedError == [kind |-> "MiddlewareError", Code |-> "UNAUTHORIZED", Message |-> "no token"]
PlainError == [kind |-> "error", text |-> "boom"]
DialError == [kind |-> "error", text |-> "dial refused"]

\* A business error, as the execution engine reports it
BusinessError == [Message |-> "rpc failed", path |-> "field"]

\* Results of the execution engine
DoResults ==
    { [data |-> "data", errors |-> <<>>],
      [data |-> "data", errors |-> <<BusinessError>>],
      [data |-> NoData, errors |-> <<BusinessError, BusinessError>>] }

----------------------------------------------------------------------------
(* Pure helpers *)

\* strings.Contains(s, sub)
Contains(s, sub) ==
    \E i \in 1..(Len(s) - Len(sub) + 1) : SubSeq(s, i, i + Len(sub) - 1) = sub

\* a key already present is kept
MergeFirstWins(merged, fields) ==
    [k \in DOMAIN merged \cup DOMAIN fields |->
        IF k \in DOMAIN merged THEN merged[k] ELSE fields[k]]

\* for k, v := range fields { merged[k] = v }
Merge(merged, fields) ==
    [k \in DOMAIN merged \cup DOMAIN fields |->
        IF k \in DOMAIN fields THEN fields[k] ELSE merged[k]]

\* graphql.NewObject(graphql.ObjectConfig{Name: name, Fields: fields})
NewObject(name, fields) == [set |-> TRUE, Name |-> name, Fields |-> fields]

\* The zero value of a root type of graphql.SchemaConfig
NoObject == [set |-> FALSE]

\* graphql.SchemaConfig as ServeHTTP and validateHandler fill it: a root
\* object is set only when its field map is not empty.
SchemaConfig(qs, ms) ==
    [Query    |-> IF Cardinality(DOMAIN qs) > 0 THEN NewObject("Query", qs) ELSE NoObject,
     Mutation |-> IF Cardinality(DOMAIN ms) > 0 THEN NewObject("Mutation", ms) ELSE NoObject]

\* A root object holding a field whose type is not an output type
Malformed(object) ==
    object.set /\ \E k \in DOMAIN object.Fields : object.Fields[k].type = "nil"

\* graphql.NewSchema(schemaConfig): the schema, or the error it reports.
\* The library requires a Query root and well-typed fields.
NewSchema(config) ==
    IF ~config.Query.set
    THEN [schema |-> NoObject,
          err |-> [kind |-> "error", text |-> "Schema query must be Object Type but got: nil."]]
    ELSE IF Malformed(config.Query) \/ Malformed(config.Mutation)
         THEN [schema |-> NoObject,
               err |-> [kind |-> "error", text |-> "field type must be Output Type but got: <nil>."]]
         ELSE [schema |-> config, err |-> NoError]

\* the handler is validated against the registry: a field name a registered
\* handler already exposes is an error
validateHandlerColliding(h) ==
    LET qs == GetQueries(h, NilConn)
        ms == GetMutations(h, NilConn)
    IN  IF \E i \in 1..Len(handlers) :
               \/ DOMAIN HandlerQueries(handlers[i]) \cap DOMAIN qs # {}
               \/ DOMAIN HandlerMutations(handlers[i]) \cap DOMAIN ms # {}
        THEN [kind |-> "error", text |-> "Schema validation error: duplicate field"]
        ELSE IF Cardinality(DOMAIN qs) = 0 /\ Cardinality(DOMAIN ms) = 0
             THEN NoError
             ELSE LET built == NewSchema(SchemaConfig(qs, ms))
                  IN  IF built.err # NoError
                      THEN [kind |-> "error",
                            text |-> "Schema validation error: " \o built.err.text]
                      ELSE NoError

\* (s *ServeMux) validateHandler(h): nil, or the validation error
validateHandler(h) ==
    LET qs == GetQueries(h, NilConn)
        ms == GetMutations(h, NilConn)
    IN  IF Cardinality(DOMAIN qs) = 0 /\ Cardinality(DOMAIN ms) = 0
        THEN NoError
        ELSE LET built == NewSchema(SchemaConfig(qs, ms))
             IN  IF built.err # NoError
                 THEN [kind |-> "error",
                       text |-> "Schema validation error: " \o built.err.text]
                 ELSE NoError

\* The request bodies json cannot decode
Undecodable(b) == b = "{"

\* parseRequest(r): the decoded request, or the decoding error
parseRequest(b) ==
    IF Undecodable(b)
    THEN [req |-> NoRequest,
          err |-> [kind |-> "error", text |-> "unexpected end of JSON input"]]
    ELSE [req |-> [Query |-> b, Variables |-> EmptyFields], err |-> NoError]

\* err.(*MiddlewareError)
IsMiddlewareError(err) == err.kind = "MiddlewareError"

\* the type assertion is missing: every failure gets the generic code
AlwaysGeneric(err, generic) ==
    [Message |-> IF IsMiddlewareError(err) THEN err.Message ELSE err.text,
     code |-> generic]

\* The GraphqlError ServeHTTP builds from a middleware's failure; generic is
\* the code given to a failure that is no *MiddlewareError.
MiddlewareFailure(err, generic) ==
    IF IsMiddlewareError(err)
    THEN [Message |-> err.Message, code |-> err.Code]
    ELSE [Message |-> err.text, code |-> generic]

\* the underlying failure is left out of the message
ConnectFailureOpaque(err) ==
    [Message |-> "Failed to create grpc connection", code |-> "GRPC_CONNECT_ERROR"]

\* The GraphqlError of a failed h.CreateConnection
ConnectFailure(err) ==
    [Message |-> "Failed to create grpc connection: " \o err.text,
     code |-> "GRPC_CONNECT_ERROR"]

\* The GraphqlError of a failed graphql.NewSchema
SchemaFailure(err) ==
    [Message |-> "Failed to build schema: " \o err.text,
     code |-> "SCHEMA_GENERATION_ERROR"]

\* the code of the schema failure, pasted
ParseFailureMiscoded(err) ==
    [Message |-> "Failed to parse request: " \o err.text,
     code |-> "SCHEMA_GENERATION_ERROR"]

\* The GraphqlError of a failed parseRequest
ParseFailure(err) ==
    [Message |-> "Failed to parse request: " \o err.text,
     code |-> "REQUEST_PARSE_ERROR"]

\* if err != nil
Failed(err) == err # NoError

\* the middleware's error is not looked at
MiddlewareErrorIgnored(err) == FALSE

\* if err != nil, on what a global middleware returned
MiddlewareFailed(err) == err # NoError

\* closer is dropped instead of deferred
DeferredLost(ds, closer) == ds

\* closer is deferred twice
DeferredTwice(ds, closer) == Append(Append(ds, closer), closer)

\* defer closer()
Deferred(ds, closer) == Append(ds, closer)

\* &graphql.Result{Errors: []GraphqlError{ge}}
ErrorResult(ge) == [data |-> NoData, errors |-> <<ge>>]

\* a result holding errors is answered with a server error status
respondResultByOutcome(result) ==
    [status |-> IF Len(result.errors) > 0 THEN 500 ELSE StatusOK,
     contentType |-> "application/json", body |-> result]

\* respondResult(w, result): what it writes to w
respondResult(result) ==
    [status |-> StatusOK, contentType |-> "application/json", body |-> result]

Reverse(s) == [i \in 1..Len(s) |-> s[Len(s) + 1 - i]]

\* The deferred calls run when ServeHTTP returns: last deferred first
RunDeferred(ds) == Reverse(ds)

\* the handler is appended whatever the validation said
RegisteredUnchecked(hs, h, err) == Append(hs, h)

\* s.handlers after AddHandler(h), whose validation returned err
Registered(hs, h, err) == IF Failed(err) THEN hs ELSE Append(hs, h)

\* the new middlewares are put in front
Prepended(list, ms) == ms \o list

\* append(s.middlewares, ms...)
Appended(list, ms) == list \o ms

----------------------------------------------------------------------------
(* Setup: NewServeMux and the registration calls *)

\* Argument lists of the variadic NewServeMux and Use
MwLists(n) == UNION {[1..k -> MwIds] : k \in 0..n}

NoRequestState ==
    /\ pc = [r \in ReqIds |-> "idle"]
    /\ body = [r \in ReqIds |-> ""]
    /\ ctx = [r \in ReqIds |-> NilCtx]
    /\ idx = [r \in ReqIds |-> 0]
    /\ queries = [r \in ReqIds |-> EmptyFields]
    /\ mutations = [r \in ReqIds |-> EmptyFields]
    /\ defers = [r \in ReqIds |-> <<>>]
    /\ req = [r \in ReqIds |-> NoRequest]
    /\ pendingQ = [r \in ReqIds |-> {}]
    /\ pendingM = [r \in ReqIds |-> {}]
    /\ curMethod = [r \in ReqIds |-> ""]
    /\ pendingD = [r \in ReqIds |-> {}]
    /\ response = [r \in ReqIds |-> <<>>]
    /\ trace = [r \in ReqIds |-> <<>>]

\* NewServeMux(ms...)
NewServeMux(ms) ==
    /\ middlewares = ms
    /\ handlers = <<>>
    /\ graphQLMiddlewares = EmptyFields
    /\ ErrorHandler = "nil"

Init ==
    /\ \E ms \in MwLists(1) : NewServeMux(ms) /\ registered = ms
    /\ addErr = NoError
    /\ regErr = NoError
    /\ phase = "setup"
    /\ clients = {1}
    /\ NoRequestState

\* (s *ServeMux) AddHandler(h), as a call of the setup code: what the
\* caller does with the error it returns is the caller's part of the step
AddHandler(h) ==
    /\ phase = "setup"
    /\ Len(handlers) < MaxHandlers
    /\ addErr' = validateHandler(h)
    /\ handlers' = Registered(handlers, h, validateHandler(h))
    /\ UNCHANGED <<middlewares, registered, graphQLMiddlewares, ErrorHandler,
                   clients, reqVars>>

\* The connections main can pass to a generated Register function: nil, or
\* one it opened itself
SetupConns == {NilConn, [req |-> 0, h |-> 1]}

\* What grpc.Dial returns to the Register function, which calls it only
\* when it was given no connection
Dialed(conn) == IF conn = NilConn THEN {NoError, DialError} ELSE {NoError}

\* The named result err of Register<Service>GraphqlHandler at its final
\* return: the value grpc.Dial left in it; what mux.AddHandler returned is
\* not assigned to anything
RegisterReturns(dialErr, addHandlerErr) == dialErr

\* if err := Register...(mux, nil); err != nil { log.Fatalln(err) }
AfterRegister(err) == IF Failed(err) THEN "fatal" ELSE "setup"

\* main calls the generated Register<Service>GraphqlHandler(mux, conn) for
\* the service whose resolver is h, and checks the error it returns
RegisterGraphqlHandler(h, conn) ==
    /\ phase = "setup"
    /\ Len(handlers) < MaxHandlers
    /\ \E dialErr \in Dialed(conn) :
          IF Failed(dialErr)
          THEN /\ regErr' = dialErr
               /\ phase' = AfterRegister(dialErr)
               /\ UNCHANGED <<middlewares, registered, graphQLMiddlewares, ErrorHandler,
                              handlers, addErr, clients, reqVars>>
          ELSE /\ AddHandler(h)
               /\ regErr' = RegisterReturns(dialErr, addErr')
               /\ phase' = AfterRegister(regErr')

\* (s *ServeMux) Use(ms...)
Use(ms) ==
    /\ phase = "setup"
    /\ Len(ms) > 0
    /\ Len(middlewares) + Len(ms) <= MaxMiddlewares
    /\ middlewares' = Appended(middlewares, ms)
    /\ registered' = registered \o ms
    /\ UNCHANGED <<graphQLMiddlewares, ErrorHandler, handlers, addErr, regErr, phase,
                   clients, reqVars>>

\* Number of (method, directive) pairs registered
DirectiveCount(gm) ==
    Cardinality({p \in DirectiveKeys :
                    p[1] \in DOMAIN gm /\ p[2] \in DOMAIN gm[p[1]]})

\* (s *ServeMux) UseDirective(method, directive, ms)
UseDirective(method, directive, fn) ==
    /\ phase = "setup"
    /\ DirectiveCount(graphQLMiddlewares) < MaxDirectives
    /\ LET directives == IF method \in DOMAIN graphQLMiddlewares
                         THEN graphQLMiddlewares[method]
                         ELSE EmptyFields
           updated == [d \in DOMAIN directives \cup {directive} |->
                          IF d = directive THEN fn ELSE directives[d]]
       IN  graphQLMiddlewares' =
               [m \in DOMAIN graphQLMiddlewares \cup {method} |->
                   IF m = method THEN updated ELSE graphQLMiddlewares[m]]
    /\ UNCHANGED <<middlewares, registered, ErrorHandler, handlers, addErr, regErr,
                   phase, clients, reqVars>>

\* mux.ErrorHandler = f
SetErrorHandler ==
    /\ phase = "setup"
    /\ ErrorHandler = "nil"
    /\ ErrorHandler' = "custom"
    /\ UNCHANGED <<middlewares, registered, graphQLMiddlewares, handlers, addErr,
                   regErr, phase, clients, reqVars>>

\* http.Handle("/graphql", mux); http.ListenAndServe(...). The err of main's
\* if statement, and what the calls made in it returned, are out of scope.
ListenAndServe ==
    /\ phase = "setup"
    /\ phase' = "serving"
    /\ addErr' = NoError
    /\ regErr' = NoError
    /\ UNCHANGED <<middlewares, registered, graphQLMiddlewares, ErrorHandler, handlers,
                   clients, reqVars>>

----------------------------------------------------------------------------
(* ServeHTTP *)

\* ctx, err := m(ctx, w, r): the loop's ctx shadows the outer one, which
\* keeps the inbound context
Shadowed(old, returned) == old

\* ctx, err = m(ctx, w, r): the local ctx after the assignment
Threaded(old, returned) == returned

\* The context of the inbound request r
InboundCtx(r) == [req |-> r, values |-> <<>>]

\* What middleware m returns for ctx: "auth" attaches a principal to the
\* context, "cors" hands it on; either may fail instead.
MwReturns(m, c) ==
    { [ctx |-> IF m = "auth" THEN [c EXCEPT !.values = Append(@, m)] ELSE c,
       err |-> NoError],
      [ctx |-> NilCtx, err |-> TypedError],
      [ctx |-> NilCtx, err |-> PlainError] }

\* What h.CreateConnection returns to request r for the i-th handler
ConnReturns(r, i) ==
    { [conn |-> [req |-> r, h |-> i], err |-> NoError],
      [conn |-> NilConn, err |-> DialError] }

\* What a directive middleware returns
DirectiveReturns == {NoError, TypedError, PlainError}

Written(result) == [op |-> "respondResult", written |-> respondResult(result)]

\* the return after the response of a failed handler loop or schema is missing
FallThrough(at) == IF at = "handlers" THEN "parse" ELSE "return"

\* the return after the response to an undecodable body is missing
FallThroughParse(at) == IF at = "parse" THEN "directives" ELSE "return"

\* Where ServeHTTP goes on after respondResult(w, ...) called at `at`: every
\* such call is followed by return, or ends the function body
AfterRespond(at) == "return"

\* The calls made when ServeHTTP returns: the deferred closers, then
\* control is back in the HTTP server
Returning(ds) ==
    [i \in 1..Len(RunDeferred(ds)) |-> [op |-> "closer", conn |-> RunDeferred(ds)[i]]]
        \o <<[op |-> "return"]>>

\* respondResult(w, result), and what follows it: the return
RespondAndReturn(r, events, result) ==
    /\ response' = [response EXCEPT ![r] = Append(@, respondResult(result))]
    /\ IF AfterRespond(pc[r]) = "return"
       THEN /\ trace' = [trace EXCEPT ![r] =
                            @ \o events \o <<Written(result)>> \o Returning(defers[r])]
            /\ defers' = [defers EXCEPT ![r] = <<>>]
            /\ pc' = [pc EXCEPT ![r] = "done"]
       ELSE /\ trace' = [trace EXCEPT ![r] = @ \o events \o <<Written(result)>>]
            /\ defers' = defers
            /\ pc' = [pc EXCEPT ![r] = AfterRespond(pc[r])]

\* The HTTP server calls s.ServeHTTP(w, r): ctx := r.Context()
Begin(r) ==
    /\ phase = "serving"
    /\ r \in clients
    /\ pc[r] = "idle"
    /\ \E b \in Bodies : body' = [body EXCEPT ![r] = b]
    /\ ctx' = [ctx EXCEPT ![r] = InboundCtx(r)]
    /\ idx' = [idx EXCEPT ![r] = 1]
    /\ pc' = [pc EXCEPT ![r] = "middlewares"]
    /\ UNCHANGED <<cfgVars, phase, clients, queries, mutations, defers, req,
                   pendingQ, pendingM, curMethod, pendingD, response, trace>>

\* One iteration of: for _, m := range s.middlewares
MiddlewareStep(r) ==
    /\ pc[r] = "middlewares"
    /\ idx[r] <= Len(middlewares)
    /\ LET m == middlewares[idx[r]]
       IN  \E out \in MwReturns(m, ctx[r]) :
             LET call == [op |-> "middleware", i |-> idx[r], m |-> m,
                          ctx |-> ctx[r], ret |-> out.ctx, err |-> out.err]
             IN  /\ ctx' = [ctx EXCEPT ![r] = Threaded(@, out.ctx)]
                 /\ IF MiddlewareFailed(out.err)
                    THEN /\ RespondAndReturn(r, <<call>>,
                                ErrorResult(MiddlewareFailure(out.err, "MIDDLEWARE_ERROR")))
                         /\ idx' = idx
                    ELSE /\ trace' = [trace EXCEPT ![r] = Append(@, call)]
                         /\ idx' = [idx EXCEPT ![r] = @ + 1]
                         /\ UNCHANGED <<pc, response, defers>>
    /\ UNCHANGED <<cfgVars, phase, clients, body, queries, mutations, req,
                   pendingQ, pendingM, curMethod, pendingD>>

\* the middleware loop pops the list it ranges over
MiddlewaresDonePopped(r) ==
    /\ pc[r] = "middlewares"
    /\ idx[r] > Len(middlewares)
    /\ middlewares' = <<>>
    /\ queries' = [queries EXCEPT ![r] = EmptyFields]
    /\ mutations' = [mutations EXCEPT ![r] = EmptyFields]
    /\ idx' = [idx EXCEPT ![r] = 1]
    /\ pc' = [pc EXCEPT ![r] = "handlers"]
    /\ UNCHANGED <<registered, graphQLMiddlewares, ErrorHandler, handlers, addErr,
                   regErr, phase, clients, body, ctx, defers, req,
                   pendingQ, pendingM, curMethod, pendingD, response, trace>>

\* The middleware loop is over: queries, mutations := graphql.Fields{}, ...
MiddlewaresDone(r) ==
    /\ pc[r] = "middlewares"
    /\ idx[r] > Len(middlewares)
    /\ queries' = [queries EXCEPT ![r] = EmptyFields]
    /\ mutations' = [mutations EXCEPT ![r] = EmptyFields]
    /\ idx' = [idx EXCEPT ![r] = 1]
    /\ pc' = [pc EXCEPT ![r] = "handlers"]
    /\ UNCHANGED <<cfgVars, phase, clients, body, ctx, defers, req,
                   pendingQ, pendingM, curMethod, pendingD, response, trace>>

\* One iteration of: for _, h := range s.handlers
HandlerStep(r) ==
    /\ pc[r] = "handlers"
    /\ idx[r] <= Len(handlers)
    /\ LET h == handlers[idx[r]]
       IN  \E out \in ConnReturns(r, idx[r]) :
             LET call == [op |-> "CreateConnection", h |-> idx[r],
                          ctx |-> ctx[r], conn |-> out.conn, err |-> out.err]
             IN  IF Failed(out.err)
                 THEN /\ RespondAndReturn(r, <<call>>, ErrorResult(ConnectFailure(out.err)))
                      /\ UNCHANGED <<idx, queries, mutations>>
                 ELSE /\ defers' = [defers EXCEPT ![r] = Deferred(@, out.conn)]
                      /\ queries' = [queries EXCEPT ![r] = Merge(@, GetQueries(h, out.conn))]
                      /\ mutations' = [mutations EXCEPT ![r] = Merge(@, GetMutations(h, out.conn))]
                      /\ trace' = [trace EXCEPT ![r] = @ \o
                            <<call,
                              [op |-> "GetQueries", h |-> idx[r], conn |-> out.conn],
                              [op |-> "GetMutations", h |-> idx[r], conn |-> out.conn]>>]
                      /\ idx' = [idx EXCEPT ![r] = @ + 1]
                      /\ UNCHANGED <<pc, response>>
    /\ UNCHANGED <<cfgVars, phase, clients, body, ctx, req,
                   pendingQ, pendingM, curMethod, pendingD>>

\* The handler loop is over: schema, err := graphql.NewSchema(schemaConfig)
BuildSchema(r) ==
    /\ pc[r] = "handlers"
    /\ idx[r] > Len(handlers)
    /\ LET built == NewSchema(SchemaConfig(queries[r], mutations[r]))
           call == [op |-> "NewSchema", config |-> SchemaConfig(queries[r], mutations[r]),
                    err |-> built.err]
       IN  IF Failed(built.err)
           THEN RespondAndReturn(r, <<call>>, ErrorResult(SchemaFailure(built.err)))
           ELSE /\ trace' = [trace EXCEPT ![r] = Append(@, call)]
                /\ pc' = [pc EXCEPT ![r] = "parse"]
                /\ UNCHANGED <<response, defers>>
    /\ UNCHANGED <<cfgVars, phase, clients, body, ctx, idx, queries, mutations,
                   req, pendingQ, pendingM, curMethod, pendingD>>

\* req, err := parseRequest(r); then methodNames is filled from the two maps
ParseRequest(r) ==
    /\ pc[r] = "parse"
    /\ LET parsed == parseRequest(body[r])
           call == [op |-> "parseRequest", err |-> parsed.err]
       IN  IF Failed(parsed.err)
           THEN /\ RespondAndReturn(r, <<call>>, ErrorResult(ParseFailure(parsed.err)))
                /\ UNCHANGED <<req, pendingQ, pendingM>>
           ELSE /\ req' = [req EXCEPT ![r] = parsed.req]
                /\ pendingQ' = [pendingQ EXCEPT ![r] = DOMAIN queries[r]]
                /\ pendingM' = [pendingM EXCEPT ![r] = DOMAIN mutations[r]]
                /\ trace' = [trace EXCEPT ![r] = Append(@, call)]
                /\ pc' = [pc EXCEPT ![r] = "directives"]
                /\ UNCHANGED <<response, defers>>
    /\ UNCHANGED <<cfgVars, phase, clients, body, ctx, idx, queries, mutations,
                   curMethod, pendingD>>

\* the test of the query text is missing: every key with directives triggers
TriggeringAnyText(r, keys) ==
    {method \in keys : method \in DOMAIN graphQLMiddlewares}

\* The methods of a set of keys whose directives the dispatch loop runs:
\* the name occurs in the query text and has directives registered
Triggering(r, keys) ==
    {method \in keys : /\ Contains(req[r].Query, method)
                       /\ method \in DOMAIN graphQLMiddlewares}

\* for _, method := range methodNames, up to the next method whose
\* directives run. methodNames holds the keys of queries, then the keys of
\* mutations, each in the order the map iteration yields them; an iteration
\* that continues, or finds no directives, changes nothing.
DispatchMethod(r) ==
    /\ pc[r] = "directives"
    /\ pendingD[r] = {}
    /\ Triggering(r, pendingQ[r]) \cup Triggering(r, pendingM[r]) # {}
    /\ IF Triggering(r, pendingQ[r]) # {}
       THEN \E method \in Triggering(r, pendingQ[r]) :
              /\ pendingQ' = [pendingQ EXCEPT ![r] = @ \ {method}]
              /\ curMethod' = [curMethod EXCEPT ![r] = method]
              /\ pendingD' = [pendingD EXCEPT ![r] = DOMAIN graphQLMiddlewares[method]]
              /\ UNCHANGED pendingM
       ELSE \E method \in Triggering(r, pendingM[r]) :
              /\ pendingM' = [pendingM EXCEPT ![r] = @ \ {method}]
              /\ curMethod' = [curMethod EXCEPT ![r] = method]
              /\ pendingD' = [pendingD EXCEPT ![r] = DOMAIN graphQLMiddlewares[method]]
              /\ UNCHANGED pendingQ
    /\ UNCHANGED <<cfgVars, phase, clients, pc, body, ctx, idx, queries, mutations,
                   defers, req, response, trace>>

\* One iteration of: for _, fn := range directives
DirectiveStep(r) ==
    /\ pc[r] = "directives"
    /\ pendingD[r] # {}
    /\ \E d \in pendingD[r], err \in DirectiveReturns :
         LET call == [op |-> "directive", method |-> curMethod[r], directive |-> d,
                      fn |-> graphQLMiddlewares[curMethod[r]][d],
                      ctx |-> ctx[r], err |-> err]
         IN  IF Failed(err)
             THEN /\ RespondAndReturn(r, <<call>>,
                         ErrorResult(MiddlewareFailure(err, "DIRECTIVE_MIDDLEWARE_ERROR")))
                  /\ UNCHANGED pendingD
             ELSE /\ pendingD' = [pendingD EXCEPT ![r] = @ \ {d}]
                  /\ trace' = [trace EXCEPT ![r] = Append(@, call)]
                  /\ UNCHANGED <<pc, response, defers>>
    /\ UNCHANGED <<cfgVars, phase, clients, body, ctx, idx, queries, mutations,
                   req, pendingQ, pendingM, curMethod>>

\* the else is missing: the default handler runs after the configured one
ObservedDefaultToo(result) ==
    IF Len(result.errors) > 0
    THEN IF ErrorHandler # "nil"
         THEN <<[op |-> "ErrorHandler", custom |-> TRUE, errors |-> result.errors],
                [op |-> "ErrorHandler", custom |-> FALSE, errors |-> result.errors]>>
         ELSE <<[op |-> "ErrorHandler", custom |-> FALSE, errors |-> result.errors]>>
    ELSE <<>>

\* The error observer ServeHTTP calls for a result of graphql.Do
Observed(result) ==
    IF Len(result.errors) > 0
    THEN <<[op |-> "ErrorHandler", custom |-> (ErrorHandler # "nil"),
            errors |-> result.errors]>>
    ELSE <<>>

\* result := graphql.Do(...); the error observer; respondResult(w, result)
Execute(r) ==
    /\ pc[r] = "directives"
    /\ pendingD[r] = {}
    /\ Triggering(r, pendingQ[r]) \cup Triggering(r, pendingM[r]) = {}
    /\ \E result \in DoResults :
         LET call == [op |-> "Do",
                      Schema |-> NewSchema(SchemaConfig(queries[r], mutations[r])).schema,
                      RequestString |-> req[r].Query,
                      VariableValues |-> req[r].Variables,
                      Context |-> ctx[r],
                      result |-> result]
         IN  RespondAndReturn(r, <<call>> \o Observed(result), result)
    /\ UNCHANGED <<cfgVars, phase, clients, body, ctx, idx, queries, mutations,
                   req, pendingQ, pendingM, curMethod, pendingD>>

\* The exchange is over; the next request of this client is a fresh call
Finish(r) ==
    /\ pc[r] = "done"
    /\ pc' = [pc EXCEPT ![r] = "idle"]
    /\ body' = [body EXCEPT ![r] = ""]
    /\ ctx' = [ctx EXCEPT ![r] = NilCtx]
    /\ idx' = [idx EXCEPT ![r] = 0]
    /\ queries' = [queries EXCEPT ![r] = EmptyFields]
    /\ mutations' = [mutations EXCEPT ![r] = EmptyFields]
    /\ req' = [req EXCEPT ![r] = NoRequest]
    /\ pendingQ' = [pendingQ EXCEPT ![r] = {}]
    /\ pendingM' = [pendingM EXCEPT ![r] = {}]
    /\ curMethod' = [curMethod EXCEPT ![r] = ""]
    /\ pendingD' = [pendingD EXCEPT ![r] = {}]
    /\ response' = [response EXCEPT ![r] = <<>>]
    /\ trace' = [trace EXCEPT ![r] = <<>>]
    /\ UNCHANGED <<cfgVars, phase, clients, defers>>

----------------------------------------------------------------------------

Setup ==
    \/ \E h \in HandlerIds, conn \in SetupConns : RegisterGraphqlHandler(h, conn)
    \/ \E ms \in MwLists(MaxMiddlewares) : Use(ms)
    \/ \E key \in DirectiveKeys, fn \in FnIds : UseDirective(key[1], key[2], fn)
    \/ SetErrorHandler
    \/ ListenAndServe

ServeHTTP(r) ==
    \/ Begin(r)
    \/ MiddlewareStep(r)
    \/ MiddlewaresDone(r)
    \/ HandlerStep(r)
    \/ BuildSchema(r)
    \/ ParseRequest(r)
    \/ DispatchMethod(r)
    \/ DirectiveStep(r)
    \/ Execute(r)
    \/ Finish(r)

Next == Setup \/ \E r \in ReqIds : ServeHTTP(r)

Spec == Init /\ [][Next]_vars

\* The steps of the call serving request r, from its first statement to its
\* return
Running(r) ==
    \/ MiddlewareStep(r)
    \/ MiddlewaresDone(r)
    \/ HandlerStep(r)
    \/ BuildSchema(r)
    \/ ParseRequest(r)
    \/ DispatchMethod(r)
    \/ DirectiveStep(r)
    \/ Execute(r)

----------------------------------------------------------------------------
(* A running server: the HTTP server calls ServeHTTP in one goroutine per request *)

\* The mux main has set up and handed to the HTTP server, which now serves
\* every client at once
InitConcurrent ==
    /\ \E ms \in {<<"auth">>, <<"cors", "auth">>} : middlewares = ms /\ registered = ms
    /\ handlers \in {<<"empty">>, <<"books">>, <<"greeter", "books">>}
    /\ graphQLMiddlewares = [m \in {"search"} |-> [d \in {"acl"} |-> "fn1"]]
    /\ ErrorHandler = "nil"
    /\ addErr = NoError
    /\ regErr = NoError
    /\ phase = "serving"
    /\ clients = ReqIds
    /\ NoRequestState

NextConcurrent == \E r \in ReqIds : ServeHTTP(r)

SpecConcurrent == InitConcurrent /\ [][NextConcurrent]_vars

\* The goroutine of a call keeps running, and what it calls returns
SpecLive == SpecConcurrent /\ \A r \in ReqIds : WF_vars(Running(r))

----------------------------------------------------------------------------
(* Reading a request's trace *)

\* Positions of the calls of op in request r's trace
At(r, op) == {i \in DOMAIN trace[r] : trace[r][i].op = op}

\* Positions of the calls of op that returned an error
FailedAt(r, op) == {i \in At(r, op) : trace[r][i].err # NoError}

\* Positions of the successful calls of op
OkAt(r, op) == {i \in At(r, op) : trace[r][i].err = NoError}

\* Positions at which closer of connection c was called
ClosedAt(r, c) == {j \in At(r, "closer") : trace[r][j].conn = c}

\* The calls of op, in the order they were made
RECURSIVE Calls(_, _, _)
Calls(r, op, n) ==
    IF n = 0 THEN <<>>
    ELSE IF trace[r][n].op = op
         THEN Append(Calls(r, op, n - 1), trace[r][n])
         ELSE Calls(r, op, n - 1)

MiddlewareCalls(r) == Calls(r, "middleware", Len(trace[r]))

HandlerOps == {"CreateConnection", "GetQueries", "GetMutations"}

----------------------------------------------------------------------------
(* Claims *)

\* C1: for every request and every handler whose CreateConnection succeeded
\* in it, that connection's closer is called exactly once, after the
\* acquisition and before ServeHTTP returns, whatever the exit path; and at
\* no time has a closer been called twice.
C1_ReleasedExactlyOnce ==
    \A r \in ReqIds :
        \A i \in OkAt(r, "CreateConnection") :
            /\ Cardinality(ClosedAt(r, trace[r][i].conn)) <= 1
            /\ \A j \in ClosedAt(r, trace[r][i].conn) : i < j
            /\ pc[r] = "done" =>
                  \E j \in ClosedAt(r, trace[r][i].conn) :
                      \E k \in At(r, "return") : j < k

\* A request that acquired two connections, was aborted by a directive
\* middleware and has returned
C1_Witness ==
    \E r \in ReqIds :
        /\ pc[r] = "done"
        /\ Cardinality(OkAt(r, "CreateConnection")) = 2
        /\ FailedAt(r, "directive") # {}
        /\ Cardinality(At(r, "closer")) = 2

\* C2 as stated: when handler A's acquisition succeeded and a later handler
\* B's failed, A's closer is called exactly once and before the response is
\* written.
C2_ReleasedBeforeResponse ==
    \A r \in ReqIds :
        pc[r] = "done" =>
            \A a \in OkAt(r, "CreateConnection"), b \in FailedAt(r, "CreateConnection") :
                a < b =>
                    /\ Cardinality(ClosedAt(r, trace[r][a].conn)) = 1
                    /\ \A j \in ClosedAt(r, trace[r][a].conn) :
                           \A w \in At(r, "respondResult") : j < w

\* C2 amended: A's closer is called exactly once, after the response has
\* been written and before ServeHTTP returns.
C2_ReleasedAfterResponse ==
    \A r \in ReqIds :
        pc[r] = "done" =>
            \A a \in OkAt(r, "CreateConnection"), b \in FailedAt(r, "CreateConnection") :
                a < b =>
                    /\ Cardinality(ClosedAt(r, trace[r][a].conn)) = 1
                    /\ \A j \in ClosedAt(r, trace[r][a].conn) :
                           /\ \E w \in At(r, "respondResult") : b < w /\ w < j
                           /\ \E k \in At(r, "return") : j < k

\* The first handler's acquisition succeeded, the second's failed, and the
\* call has returned
C2_Witness ==
    \E r \in ReqIds :
        /\ pc[r] = "done"
        /\ \E a \in OkAt(r, "CreateConnection"), b \in FailedAt(r, "CreateConnection") :
              /\ trace[r][a].h = 1
              /\ trace[r][b].h = 2
              /\ ClosedAt(r, trace[r][a].conn) # {}

\* C3: in a request in which a global middleware failed, no handler's
\* CreateConnection, GetQueries or GetMutations is called, no schema is
\* built, no directive middleware runs and the engine is not invoked.
C3_MiddlewareFailureStopsAll ==
    \A r \in ReqIds :
        FailedAt(r, "middleware") # {} =>
            \A i \in DOMAIN trace[r] :
                trace[r][i].op \notin HandlerOps \cup {"NewSchema", "directive", "Do"}

\* A middleware failed in front of a registry of two handlers, and the call
\* has returned
C3_Witness ==
    \E r \in ReqIds :
        /\ pc[r] = "done"
        /\ FailedAt(r, "middleware") # {}
        /\ Len(handlers) = 2

\* C4: the middlewares called in a request are, in order, the first ones
\* in registration order (those given to NewServeMux, then those of each
\* Use call), each position called at most once, and a middleware that
\* failed is the last one called.
C4_MiddlewareOrder ==
    \A r \in ReqIds :
        LET called == MiddlewareCalls(r)
        IN  /\ Len(called) <= Len(registered)
            /\ \A k \in DOMAIN called :
                  /\ called[k].i = k
                  /\ called[k].m = registered[k]
                  /\ called[k].err # NoError => k = Len(called)

\* NewServeMux(cors) then Use(auth): cors ran, then auth ran and failed
C4_Witness ==
    \E r \in ReqIds :
        /\ pc[r] = "done"
        /\ registered = <<"cors", "auth">>
        /\ Len(MiddlewareCalls(r)) = 2
        /\ MiddlewareCalls(r)[1].m = "cors"
        /\ MiddlewareCalls(r)[2].err # NoError

\* The request was answered once, with one error entry of this code
AnsweredWith(r, code) ==
    /\ Len(response[r]) = 1
    /\ Len(response[r][1].body.errors) = 1
    /\ "code" \in DOMAIN response[r][1].body.errors[1]
    /\ response[r][1].body.errors[1].code = code

C6_AlwaysStatusOK ==
    \A r \in ReqIds :
        \A k \in DOMAIN response[r] : response[r][k].status = 200

\* A response carrying the engine's data together with a business error
C6_Witness ==
    \E r \in ReqIds :
        /\ Len(response[r]) = 1
        /\ response[r][1].body.data # NoData
        /\ Len(response[r][1].body.errors) > 0

PipelineOps == {"middleware", "CreateConnection", "NewSchema", "parseRequest", "directive"}

\* C7: a failure of a middleware, a connection, the schema, the decoding or
\* a directive is answered at once with exactly one error entry and no
\* data; nothing follows but the deferred closers and the return; the
\* engine and the error observer are not called in that request.
C7_PipelineFailureIsFatal ==
    \A r \in ReqIds :
        \A i \in DOMAIN trace[r] :
            (trace[r][i].op \in PipelineOps /\ trace[r][i].err # NoError) =>
                /\ i < Len(trace[r])
                /\ trace[r][i + 1].op = "respondResult"
                /\ Len(trace[r][i + 1].written.body.errors) = 1
                /\ trace[r][i + 1].written.body.data = NoData
                /\ response[r] = <<trace[r][i + 1].written>>
                /\ \A j \in DOMAIN trace[r] :
                      /\ j > i + 1 => trace[r][j].op \in {"closer", "return"}
                      /\ trace[r][j].op \notin {"Do", "ErrorHandler"}

\* The schema could not be built from a handler without fields, whose
\* connection was then released
C7_Witness ==
    \E r \in ReqIds :
        /\ pc[r] = "done"
        /\ FailedAt(r, "NewSchema") # {}
        /\ At(r, "closer") # {}

\* C8: the entry answering a failed global or directive middleware carries
\* the failure's Code and Message when it is a *MiddlewareError, and
\* otherwise its text with MIDDLEWARE_ERROR (global) or
\* DIRECTIVE_MIDDLEWARE_ERROR (directive).
C8_MiddlewareErrorShape ==
    \A r \in ReqIds :
        \A i \in FailedAt(r, "middleware") \cup FailedAt(r, "directive") :
            /\ i < Len(trace[r])
            /\ trace[r][i + 1].op = "respondResult"
            /\ Len(trace[r][i + 1].written.body.errors) = 1
            /\ LET err == trace[r][i].err
                   ge == trace[r][i + 1].written.body.errors[1]
               IN  IF err.kind = "MiddlewareError"
                   THEN ge.code = err.Code /\ ge.Message = err.Message
                   ELSE /\ ge.Message = err.text
                        /\ ge.code = IF trace[r][i].op = "middleware"
                                     THEN "MIDDLEWARE_ERROR"
                                     ELSE "DIRECTIVE_MIDDLEWARE_ERROR"

\* A directive middleware failed with a *MiddlewareError and the request
\* was answered with its code
C8_Witness ==
    \E r \in ReqIds :
        /\ \E i \in FailedAt(r, "directive") : trace[r][i].err.kind = "MiddlewareError"
        /\ AnsweredWith(r, "UNAUTHORIZED")

\* Positions in the registry of the handlers exposing field k
QueryOwners(k) == {i \in 1..Len(handlers) : k \in DOMAIN HandlerQueries(handlers[i])}
MutationOwners(k) == {i \in 1..Len(handlers) : k \in DOMAIN HandlerMutations(handlers[i])}

Last(S) == CHOOSE i \in S : \A j \in S : j <= i

FieldsOf(object) == IF object.set THEN object.Fields ELSE EmptyFields

\* C9: the field maps the schema of a request is built from hold, for every
\* field name some registered handler exposes and for no other name, the
\* field of the last handler in registration order exposing it, bound to
\* the connection that handler gave to this request.
C9_LastRegisteredWins ==
    \A r \in ReqIds :
        \A i \in At(r, "NewSchema") :
            LET qs == FieldsOf(trace[r][i].config.Query)
                ms == FieldsOf(trace[r][i].config.Mutation)
            IN  /\ DOMAIN qs = {k \in Names : QueryOwners(k) # {}}
                /\ DOMAIN ms = {k \in Names : MutationOwners(k) # {}}
                /\ \A k \in DOMAIN qs :
                      qs[k] = GetQueries(handlers[Last(QueryOwners(k))],
                                  [req |-> r, h |-> Last(QueryOwners(k))])[k]
                /\ \A k \in DOMAIN ms :
                      ms[k] = GetMutations(handlers[Last(MutationOwners(k))],
                                  [req |-> r, h |-> Last(MutationOwners(k))])[k]

\* books then greeter both expose hello: the schema was built with
\* greeter's hello and books' search
C9_Witness ==
    \E r \in ReqIds :
        /\ handlers = <<"books", "greeter">>
        /\ \E i \in At(r, "NewSchema") :
              /\ trace[r][i].config.Query.Fields["hello"].handler = "greeter"
              /\ trace[r][i].config.Query.Fields["search"].handler = "books"

\* The handler exposes a field, and its own fields build no valid schema
Invalid(h) ==
    /\ DOMAIN HandlerQueries(h) \cup DOMAIN HandlerMutations(h) # {}
    /\ NewSchema(SchemaConfig(GetQueries(h, NilConn), GetMutations(h, NilConn))).err # NoError

\* C10: AddHandler on a handler with a field whose fields build no valid
\* schema returns an error, with no request made, and leaves the registry
\* as it was; on any other handler it returns nil and appends the handler
\* at the end of the registry.
C10_AddHandlerValidates ==
    [][\A h \in HandlerIds :
          AddHandler(h) =>
              IF Invalid(h)
              THEN /\ addErr' # NoError
                   /\ handlers' = handlers
                   /\ \A r \in ReqIds : trace'[r] = <<>> /\ pc'[r] = "idle"
              ELSE /\ addErr' = NoError
                   /\ handlers' = Append(handlers, h)]_vars

\* A handler was rejected after another had been registered
C10_Witness ==
    /\ addErr # NoError
    /\ Len(handlers) = 1

\* The field names of the merged maps request r built its schema from
MergedKeys(r) ==
    UNION {DOMAIN FieldsOf(trace[r][i].config.Query)
               \cup DOMAIN FieldsOf(trace[r][i].config.Mutation) :
           i \in At(r, "NewSchema")}

\* Positions at which directive d of method was called in request r
DirectiveAt(r, method, d) ==
    {i \in At(r, "directive") :
        trace[r][i].method = method /\ trace[r][i].directive = d}

\* C11: a directive middleware called in a request is one registered for
\* its method, and that method is a key of the merged query or mutation map
\* and a literal substring of the decoded query text; so a text that does
\* not contain the name triggers none of its directives. And in a request
\* whose dispatch loop ran to its end (the engine was invoked), every
\* directive registered for a merged key the text contains was called and
\* returned nil.
C11_DirectiveDispatch ==
    [](\A r \in ReqIds :
          /\ \A i \in At(r, "directive") :
                LET method == trace[r][i].method
                IN  /\ method \in MergedKeys(r)
                    /\ \E p \in OkAt(r, "parseRequest") : p < i
                    /\ Contains(req[r].Query, method)
                    /\ method \in DOMAIN graphQLMiddlewares
                    /\ trace[r][i].directive \in DOMAIN graphQLMiddlewares[method]
                    /\ trace[r][i].fn = graphQLMiddlewares[method][trace[r][i].directive]
          /\ \A e \in At(r, "Do") :
                \A method \in DOMAIN graphQLMiddlewares \cap MergedKeys(r) :
                    Contains(trace[r][e].RequestString, method) =>
                        \A d \in DOMAIN graphQLMiddlewares[method] :
                            \E i \in DirectiveAt(r, method, d) :
                                i < e /\ trace[r][i].err = NoError)

\* Two directives are registered for search, which the merged maps hold
\* next to create: both directives ran and the engine was invoked
C11_Witness ==
    \E r \in ReqIds :
        /\ At(r, "Do") # {}
        /\ "create" \in MergedKeys(r)
        /\ DirectiveAt(r, "search", "acl") # {}
        /\ DirectiveAt(r, "search", "audit") # {}

\* C12 as stated: a directive registered for a merged key the query text
\* contains is never called twice in a request, and when the engine is
\* invoked it has been called exactly once, before the engine; whatever
\* the handlers, a name held by both merged maps included.
C12_DirectiveRunsOnce ==
    \A r \in ReqIds :
        \A method \in DOMAIN graphQLMiddlewares \cap MergedKeys(r) :
            \A d \in DOMAIN graphQLMiddlewares[method] :
                /\ Cardinality(DirectiveAt(r, method, d)) <= 1
                /\ \A e \in At(r, "Do") :
                      Contains(trace[r][e].RequestString, method) =>
                          /\ Cardinality(DirectiveAt(r, method, d)) = 1
                          /\ \A i \in DirectiveAt(r, method, d) : i < e

\* C13: no step of ServeHTTP, and no step taken once the mux is serving,
\* changes the handler registry, the global middleware list or the
\* directive map: they stay what the setup calls left them.
C13_ConfigurationReadOnly ==
    [][(phase = "serving" \/ \E r \in ReqIds : ServeHTTP(r)) =>
          /\ handlers' = handlers
          /\ middlewares' = middlewares
          /\ graphQLMiddlewares' = graphQLMiddlewares]_vars

\* A request went through a middleware, two handlers and a directive and
\* has returned; the three collections are still populated
C13_Witness ==
    \E r \in ReqIds :
        /\ pc[r] = "done"
        /\ OkAt(r, "middleware") # {}
        /\ OkAt(r, "directive") # {}
        /\ Len(handlers) = 2
        /\ Len(middlewares) > 0
        /\ DOMAIN graphQLMiddlewares # {}

\* A registered handler exposes a query name or a mutation name of h
Collides(h) ==
    \E i \in 1..Len(handlers) :
        \/ DOMAIN HandlerQueries(handlers[i]) \cap DOMAIN HandlerQueries(h) # {}
        \/ DOMAIN HandlerMutations(handlers[i]) \cap DOMAIN HandlerMutations(h) # {}

\* C14: whatever the registry holds, AddHandler(h) returns nil exactly when
\* h's own fields build a valid schema or h has no field; a handler whose
\* names collide with registered ones is then appended like any other, and
\* a handler with no field is always appended.
C14_OwnFieldsDecide ==
    [][\A h \in HandlerIds :
          AddHandler(h) =>
              /\ (addErr' = NoError) <=> ~Invalid(h)
              /\ (Collides(h) /\ ~Invalid(h)) => handlers' = Append(handlers, h)
              /\ DOMAIN HandlerQueries(h) \cup DOMAIN HandlerMutations(h) = {} =>
                    /\ addErr' = NoError
                    /\ handlers' = Append(handlers, h)]_vars

\* Setup has registered two handlers that both expose hello
C14_Witness ==
    /\ phase = "setup"
    /\ addErr = NoError
    /\ Len(handlers) = 2
    /\ "hello" \in DOMAIN HandlerQueries(handlers[1]) \cap DOMAIN HandlerQueries(handlers[2])

ConnectCalls(r) == Calls(r, "CreateConnection", Len(trace[r]))

\* C15: in a request in which no global middleware failed, the k-th
\* CreateConnection call is on the k-th registered handler (registration
\* order, each handler at most once) and every handler is reached unless an
\* acquisition failed; a failed acquisition is the last one attempted, no
\* schema is built, and the response is one GRPC_CONNECT_ERROR entry whose
\* message contains the failure's message.
C15_AcquisitionInOrder ==
    [](\A r \in ReqIds :
          FailedAt(r, "middleware") = {} =>
              LET called == ConnectCalls(r)
              IN  /\ Len(called) <= Len(handlers)
                  /\ \A k \in DOMAIN called : called[k].h = k
                  /\ \A f \in FailedAt(r, "CreateConnection") :
                        /\ \A i \in At(r, "CreateConnection") : i <= f
                        /\ At(r, "NewSchema") = {}
                        /\ AnsweredWith(r, "GRPC_CONNECT_ERROR")
                        /\ Contains(response[r][1].body.errors[1].Message,
                                    trace[r][f].err.text)
                  /\ (pc[r] = "done" /\ FailedAt(r, "CreateConnection") = {}) =>
                        Len(called) = Len(handlers))

\* Behind a middleware that succeeded, the first handler's acquisition
\* succeeded and the second's failed
C15_Witness ==
    \E r \in ReqIds :
        /\ pc[r] = "done"
        /\ OkAt(r, "middleware") # {}
        /\ Len(ConnectCalls(r)) = 2
        /\ ConnectCalls(r)[1].err = NoError
        /\ ConnectCalls(r)[2].err = DialError

\* C16: an error observer is called in a request exactly when the engine
\* was invoked and its result holds an error. It is then called once, right
\* after the engine and right before the response is written: the
\* configured ErrorHandler when one is set, else the default handler, with
\* the result's whole error list. The response written is the engine's
\* result, data and errors unchanged.
C16_ErrorObserver ==
    [](\A r \in ReqIds :
          /\ Cardinality(At(r, "ErrorHandler")) <= 1
          /\ \A o \in At(r, "ErrorHandler") :
                /\ o > 1
                /\ trace[r][o - 1].op = "Do"
                /\ Len(trace[r][o - 1].result.errors) > 0
          /\ \A e \in At(r, "Do") :
                /\ e < Len(trace[r])
                /\ IF Len(trace[r][e].result.errors) > 0
                   THEN /\ trace[r][e + 1].op = "ErrorHandler"
                        /\ trace[r][e + 1].errors = trace[r][e].result.errors
                        /\ trace[r][e + 1].custom = (ErrorHandler # "nil")
                        /\ trace[r][e + 2].op = "respondResult"
                   ELSE /\ At(r, "ErrorHandler") = {}
                        /\ trace[r][e + 1].op = "respondResult"
                /\ Len(response[r]) = 1
                /\ response[r][1].body = trace[r][e].result)

\* The configured ErrorHandler saw the two errors of a result without data
C16_Witness ==
    \E r \in ReqIds :
        /\ ErrorHandler = "custom"
        /\ \E o \in At(r, "ErrorHandler") :
              trace[r][o].custom /\ Len(trace[r][o].errors) = 2
        /\ Len(response[r]) = 1
        /\ response[r][1].body.data = NoData

\* The local state of the ServeHTTP call serving request q
Local(q) ==
    <<pc[q], body[q], ctx[q], idx[q], queries[q], mutations[q], defers[q], req[q],
      pendingQ[q], pendingM[q], curMethod[q], pendingD[q], response[q], trace[q]>>

\* Everything request r holds or has used is its own: its context, the
\* connections its merged fields and its schema are bound to, the
\* connections it deferred and the ones it released, each acquired by r
Owned(r) ==
    /\ ctx[r] # NilCtx => ctx[r].req = r
    /\ \A k \in DOMAIN queries[r] : queries[r][k].conn.req = r
    /\ \A k \in DOMAIN mutations[r] : mutations[r][k].conn.req = r
    /\ \A k \in DOMAIN defers[r] : defers[r][k].req = r
    /\ \A i \in At(r, "CreateConnection") \cup At(r, "directive") : trace[r][i].ctx.req = r
    /\ \A i \in At(r, "NewSchema") :
          /\ \A k \in DOMAIN FieldsOf(trace[r][i].config.Query) :
                FieldsOf(trace[r][i].config.Query)[k].conn.req = r
          /\ \A k \in DOMAIN FieldsOf(trace[r][i].config.Mutation) :
                FieldsOf(trace[r][i].config.Mutation)[k].conn.req = r
    /\ \A i \in At(r, "Do") :
          /\ trace[r][i].Context.req = r
          /\ \A s \in At(r, "NewSchema") : trace[r][i].Schema = trace[r][s].config
    /\ \A j \in At(r, "closer") :
          /\ trace[r][j].conn.req = r
          /\ \E i \in OkAt(r, "CreateConnection") :
                i < j /\ trace[r][i].conn = trace[r][j].conn
    /\ pc[r] = "done" =>
          \A i \in OkAt(r, "CreateConnection") :
              Cardinality(ClosedAt(r, trace[r][i].conn)) = 1

\* What the collaborators returned to request r, call by call
Returned(r) ==
    [i \in DOMAIN trace[r] |->
        IF trace[r][i].op = "Do" THEN [op |-> "Do", ret |-> trace[r][i].result]
        ELSE IF "err" \in DOMAIN trace[r][i]
             THEN [op |-> trace[r][i].op, ret |-> trace[r][i].err]
             ELSE [op |-> trace[r][i].op, ret |-> NoError]]

\* Requests that sent the same body and got the same returns from their
\* collaborators have written the same response
SameOutcome ==
    \A r, q \in ReqIds :
        (pc[r] = "done" /\ pc[q] = "done" /\ body[r] = body[q]
            /\ Returned(r) = Returned(q)) => response[r] = response[q]

\* C17: with the requests served concurrently, every request only ever
\* holds, uses and releases what is its own, it has released each of its
\* connections exactly once when it returns, its response is decided by
\* its own body and what its own collaborators returned, and a step of one
\* request leaves the local state of every other request as it was.
C17_RequestsIsolated ==
    /\ [](\A r \in ReqIds : Owned(r))
    /\ []SameOutcome
    /\ [][\A r \in ReqIds :
             ServeHTTP(r) => \A q \in ReqIds \ {r} : Local(q)' = Local(q)]_vars

\* Two requests are in flight together, each holding two connections
C17_Witness ==
    /\ pc[1] = "directives"
    /\ pc[2] = "directives"
    /\ Len(defers[1]) = 2
    /\ Len(defers[2]) = 2
    /\ body[1] # body[2]

\* The context request r's middleware loop ends with: the one the last
\* middleware called returned, or the inbound one when none was called
FinalCtx(r) ==
    IF At(r, "middleware") = {}
    THEN InboundCtx(r)
    ELSE trace[r][Last(At(r, "middleware"))].ret

\* C18: the first global middleware receives the inbound request's
\* context and each later one the context the previous one returned; every
\* CreateConnection call and every directive middleware receives, and the
\* engine is given, the context the last registered middleware returned,
\* which is the inbound context when no middleware is registered.
C18_ContextThreaded ==
    [](\A r \in ReqIds :
          LET final == FinalCtx(r)
              ran == Cardinality(At(r, "middleware"))
          IN  /\ \A i \in At(r, "middleware") :
                    /\ trace[r][i].i = i
                    /\ trace[r][i].ctx =
                          IF i = 1 THEN InboundCtx(r) ELSE trace[r][i - 1].ret
              /\ \A i \in At(r, "CreateConnection") \cup At(r, "directive") :
                    /\ ran = Len(middlewares)
                    /\ trace[r][i].ctx = final
              /\ \A i \in At(r, "Do") :
                    /\ ran = Len(middlewares)
                    /\ trace[r][i].Context = final)

\* Two middlewares ran, auth attached its value, and the context handed
\* to a handler, to a directive and to the engine carries it
C18_Witness ==
    \E r \in ReqIds :
        /\ Len(MiddlewareCalls(r)) = 2
        /\ At(r, "directive") # {}
        /\ \E i \in At(r, "CreateConnection") : trace[r][i].ctx.values # <<>>
        /\ \E i \in At(r, "Do") : trace[r][i].Context.values # <<>>

\* C19 as stated: whenever AddHandler rejected the handler, the generated
\* Register function has returned a non-nil error to main, which
\* has stopped the setup.
C19_RejectionFailsRegistration ==
    Failed(addErr) => (Failed(regErr) /\ phase = "fatal")

\* C20: respondResult is never called twice in a call of ServeHTTP, what
\* was written to w is what it wrote, a call that has returned has called
\* it exactly once, and every call that was started returns.
C20_OneResponse ==
    /\ [](\A r \in ReqIds :
            /\ Cardinality(At(r, "respondResult")) <= 1
            /\ Len(response[r]) = Cardinality(At(r, "respondResult"))
            /\ \A i \in At(r, "respondResult") : response[r] = <<trace[r][i].written>>
            /\ pc[r] = "done" =>
                  /\ Cardinality(At(r, "respondResult")) = 1
                  /\ Cardinality(At(r, "return")) = 1
                  /\ trace[r][Len(trace[r])].op = "return")
    /\ \A r \in ReqIds : (pc[r] = "middlewares") ~> (pc[r] = "done")

\* A call has returned after the engine's result was written, behind two
\* middlewares, two handlers and a directive
C20_Witness ==
    \E r \in ReqIds :
        /\ pc[r] = "done"
        /\ Len(MiddlewareCalls(r)) = 2
        /\ Len(ConnectCalls(r)) = 2
        /\ At(r, "directive") # {}
        /\ At(r, "Do") # {}
        /\ Len(response[r]) = 1

====
